---- MODULE Spec2Model ----
(***************************************************************************)
(* EposClient (the printer connection manager) and useEposPrinter (the     *)
(* React binding over it), as state machines.                              *)
(*                                                                         *)
(* JavaScript runs one task at a time: an operation runs without           *)
(* interruption from its call to its first suspension point (an await or a *)
(* pending SDK callback) and from one suspension point to the next.  Each  *)
(* such run is one action here.  A call in flight occupies a slot of       *)
(* `calls`; its position is the slot's pc.  A settled promise stays in its *)
(* slot (pc = "done") until the continuation of whoever awaits it runs.    *)
(*                                                                         *)
(* The vendor SDK and the document are the environment: an SDK callback    *)
(* fires once, at any later time, with any result code; a script element   *)
(* fires load or error once.                                               *)
(***************************************************************************)
EXTENDS Naturals, Sequences, FiniteSets, TLC

(* ------------------------------ bounds -------------------------------- *)

\* Operations that may be in flight (or settled and not yet observed) at once.
MaxCalls == 2
\* SDK session objects (new window.epson.ePOSDevice()) created in one run.
MaxSessions == 2
\* Printer device objects the SDK hands out in one run.
MaxPrinters == 2

(* ----------------------------- constants ------------------------------ *)

\* null, for the two handles (this.device, this.printer, printerRef.current).
Null == 0
\* constructor({ sdkUrl, ip, port = 8043 })
DefaultPort == 8043

\* An optional argument: <<>> when omitted (undefined), <<v>> when passed.
Omitted == << >>

\* A resolution that ignores the override.
Coalesce_Stored(a, b) == b

\* a ?? b
Coalesce(a, b) == IF a = Omitted THEN b ELSE a[1]

\* The construction options of the manager under study.
CtorOptions == [sdkUrl |-> <<"/sdk.js">>, ip |-> <<"10.0.0.5">>, port |-> Omitted]

\* The options objects new EposClient(...) is tried with.
CtorInputs ==
    [sdkUrl : {Omitted, <<"">>, <<"/sdk.js">>},
     ip : {Omitted, <<"">>, <<"10.0.0.5">>},
     port : {Omitted, <<9100>>}]

\* Arguments of connect(ipOverride, portOverride) that are tried.
ConnectArgs ==
    { [ip |-> Omitted, port |-> Omitted],
      [ip |-> <<"">>, port |-> Omitted],
      [ip |-> <<"10.0.0.9">>, port |-> <<9100>>] }

NoArgs == [ip |-> Omitted, port |-> Omitted]

\* Arguments of setEndpoint(ip, port) that are tried.
Hosts == {"10.0.0.7", ""}
PortArgs == {Omitted, <<9100>>}

\* The methods that return at once.
SyncOps == {"isConnected", "setSdkUrl", "setEndpoint"}

\* Result codes an SDK callback may report.
ResultCodes == {"OK", "SSL_CONNECT_OK", "ERROR_TIMEOUT"}

\* src of the script elements the document may hold.
Urls == {"/sdk.js", "/sdk2.js"}

\* PRINTER_STATUS
PRINTER_STATUS ==
    [IDLE |-> "idle", CONNECTING |-> "connecting",
     CONNECTED |-> "connected", ERROR |-> "error"]

\* PRINTER_STATUS_LABELS without an entry for PRINTER_STATUS.ERROR.
PRINTER_STATUS_LABELS_NoError ==
    (PRINTER_STATUS.IDLE :> "Disconnected")
        @@ (PRINTER_STATUS.CONNECTING :> "Connecting...")
        @@ (PRINTER_STATUS.CONNECTED :> "Connected")

\* PRINTER_STATUS_LABELS: an object whose keys are the values of PRINTER_STATUS.
PRINTER_STATUS_LABELS ==
    (PRINTER_STATUS.IDLE :> "Disconnected")
        @@ (PRINTER_STATUS.CONNECTING :> "Connecting...")
        @@ (PRINTER_STATUS.CONNECTED :> "Connected")
        @@ (PRINTER_STATUS.ERROR :> "Connection Error")

\* A JavaScript value: its type (typeof, with null and arrays told apart) and
\* its printed form; for a string, str is the string itself.
JsValue(t, s) == [type |-> t, str |-> s]
Str(s) == JsValue("string", s)
Undefined == JsValue("undefined", "undefined")
Bool(b) == JsValue("boolean", IF b THEN "true" ELSE "false")

\* Values handed to isValidPrinterStatus: the canonical strings, other
\* strings, and values that are not strings (among them a String object and
\* an array that print as a canonical string).
StatusStrings ==
    {"idle", "connecting", "connected", "error", "invalid", "disconnected",
     "", "IDLE", "Idle", "CONNECTED", " idle ", "idle\n"}
StatusInputs ==
    {Str(s) : s \in StatusStrings}
        \cup {JsValue("null", "null"), Undefined, JsValue("number", "123"),
              JsValue("number", "NaN"), JsValue("object", "[object Object]"),
              JsValue("object", "idle"), JsValue("array", ""),
              JsValue("array", "idle"), Bool(TRUE), Bool(FALSE)}

\* error === null in the binding; err.message of a rejection that is not an Error.
NoError == "<null>"
NoMessage == "<undefined>"

Slots == 1..MaxCalls

(* ------------------------------- state -------------------------------- *)

VARIABLES
    \* the construction of the manager
    options,     \* the options object new EposClient(...) was given
    client,      \* "none" before the constructor ran, then "built" or "threw"
    \* EposClient fields
    device,      \* this.device: the held SDK session (Null or a session id)
    printer,     \* this.printer: the held printer device object (Null or an id)
    sdkUrl,      \* this.sdkUrl
    ip,          \* this.ip
    port,        \* this.port
    sdkLoaded,   \* this.sdkLoaded
    \* the page
    epson,       \* window.epson && window.epson.ePOSDevice is present
    scripts,     \* document: per src, the script element found by querySelector
                 \* ("absent" | "loading" | "loaded" | "failed") and how many
                 \* elements with that src were appended
    peerLoaded,  \* this.sdkLoaded of a second manager on the same page
    \* the vendor SDK
    sess,        \* per session object created so far: what the SDK knows of it
    nPrinters,   \* printer device objects handed out so far
    \* operations in flight
    calls,
    \* useEposPrinter state
    status,      \* useState(PRINTER_STATUS.IDLE)
    error,       \* useState(null)
    printerRef,  \* printerRef.current
    mounted      \* the owning component has not been torn down

mgrVars == <<device, printer, options, client, sdkUrl, ip, port, sdkLoaded>>
pageVars == <<epson, scripts, peerLoaded>>
sdkVars == <<sess, nPrinters>>
cfgVars == <<options, client, sdkUrl, ip, port>>
hookVars == <<status, error, printerRef, mounted>>
vars == <<mgrVars, pageVars, sdkVars, calls, hookVars>>

\* A slot holding no call.
FreeSlot ==
    [op |-> "none", by |-> "none", pc |-> "free", arg |-> NoArgs,
     dev0 |-> Null, prn0 |-> Null, sid |-> Null,
     url |-> "", host |-> "", port |-> 0, outcome |-> "none", value |-> Null, answer |-> FALSE,
     error |-> NoError, code |-> "none", trace |-> << >>,
     input |-> Undefined, output |-> Undefined]

\* A call just made: op is the operation, by is who awaits it; dev0 and prn0
\* are the handles held at the moment of the call.
NewCall(op, by) ==
    [FreeSlot EXCEPT !.op = op, !.by = by, !.dev0 = device, !.prn0 = printer]

\* A slot for a value that is there at once (a synchronous return, the
\* binding's own result).
Value(op, by) == [FreeSlot EXCEPT !.op = op, !.by = by]

\* The lowest free slot (calls are told apart by what they do, not by slot).
IsFree(c) == calls[c].pc = "free" /\ \A d \in Slots : d < c => calls[d].pc # "free"

\* resolve(v) / reject(new Error(msg)) of the promise of a call.
Resolve(call, v) == [call EXCEPT !.pc = "done", !.outcome = "resolved", !.value = v]
\* A rejection that is swallowed: the promise resolves instead.
Reject_Swallowed(call, msg) == [call EXCEPT !.pc = "done", !.outcome = "resolved"]

Reject(call, msg) == [call EXCEPT !.pc = "done", !.outcome = "rejected", !.error = msg]

\* The SDK primitives a call has invoked so far, in order, as <<name, session>>.
Did(call, name, s) == [call EXCEPT !.trace = Append(@, <<name, s>>)]

Sessions == DOMAIN sess

(* ---------------------------- construction ---------------------------- *)

\* !x for an optional string: omitted or empty.
Falsy(x) == x = Omitted \/ x[1] = ""

\* A constructor that does not insist on a host.
EposClient_NoHostCheck(opts) ==
    IF Falsy(opts.sdkUrl)
    THEN [ok |-> FALSE, error |-> "EposClient requires sdkUrl in constructor options."]
    ELSE [ok |-> TRUE, error |-> NoError,
          device |-> Null, printer |-> Null,
          sdkUrl |-> opts.sdkUrl[1],
          ip |-> IF opts.ip = Omitted THEN "" ELSE opts.ip[1],
          port |-> Coalesce(opts.port, DefaultPort), sdkLoaded |-> FALSE]

\* new EposClient({ sdkUrl, ip, port = 8043 })
EposClient(opts) ==
    IF Falsy(opts.sdkUrl)
    THEN [ok |-> FALSE, error |-> "EposClient requires sdkUrl in constructor options."]
    ELSE IF Falsy(opts.ip)
    THEN [ok |-> FALSE, error |-> "EposClient requires printer IP in constructor options."]
    ELSE [ok |-> TRUE, error |-> NoError,
          device |-> Null, printer |-> Null,
          sdkUrl |-> opts.sdkUrl[1], ip |-> opts.ip[1],
          port |-> Coalesce(opts.port, DefaultPort), sdkLoaded |-> FALSE]

\* The manager exists: its constructor has returned.
Built == client = "built"

Init ==
    /\ options = CtorOptions
    /\ client = "built"
    /\ LET m == EposClient(CtorOptions) IN
        /\ m.ok
        /\ device = m.device
        /\ printer = m.printer
        /\ sdkUrl = m.sdkUrl
        /\ ip = m.ip
        /\ port = m.port
        /\ sdkLoaded = m.sdkLoaded
    /\ epson \in BOOLEAN
    /\ scripts = [u \in Urls |-> [state |-> "absent", injected |-> 0]]
    /\ peerLoaded = FALSE
    /\ sess = << >>
    /\ nPrinters = 0
    /\ calls = [c \in Slots |-> FreeSlot]
    /\ status = PRINTER_STATUS.IDLE
    /\ error = NoError
    /\ printerRef = Null
    /\ mounted = TRUE

\* The state before the constructor has run: the options are chosen, no field
\* of the manager exists yet.
InitNew ==
    /\ options \in CtorInputs
    /\ client = "none"
    /\ device = Null
    /\ printer = Null
    /\ sdkUrl = ""
    /\ ip = ""
    /\ port = 0
    /\ sdkLoaded = FALSE
    /\ epson \in BOOLEAN
    /\ scripts = [u \in Urls |-> [state |-> "absent", injected |-> 0]]
    /\ peerLoaded = FALSE
    /\ sess = << >>
    /\ nPrinters = 0
    /\ calls = [c \in Slots |-> FreeSlot]
    /\ status = PRINTER_STATUS.IDLE
    /\ error = NoError
    /\ printerRef = Null
    /\ mounted = TRUE

\* new EposClient(options): the fields are assigned, or the constructor throws
\* and the error is what the caller is left with.
New ==
    /\ client = "none"
    /\ LET m == EposClient(options) IN
        IF m.ok
        THEN /\ client' = "built"
             /\ device' = m.device
             /\ printer' = m.printer
             /\ sdkUrl' = m.sdkUrl
             /\ ip' = m.ip
             /\ port' = m.port
             /\ sdkLoaded' = m.sdkLoaded
             /\ UNCHANGED calls
        ELSE /\ client' = "threw"
             /\ calls' = [calls EXCEPT ![1] =
                    [Value("new", "user") EXCEPT
                        !.pc = "done", !.outcome = "threw", !.error = m.error]]
             /\ UNCHANGED <<device, printer, sdkUrl, ip, port, sdkLoaded>>
    /\ UNCHANGED <<options, pageVars, sdkVars, hookVars>>

(* ------------------------- EposClient: helpers ------------------------ *)

\* What this.device.isConnected() does for a session: "true", "false" or "throws".
SdkIsConnected(s) == sess[s].live

\* isConnected() without its try/catch: the live-check's exception escapes.
IsConnected_NoCatch ==
    IF device = Null
    THEN [threw |-> FALSE, answer |-> FALSE, check |-> "none"]
    ELSE [threw |-> sess[device].live = "throws",
          answer |-> sess[device].live = "true",
          check |-> sess[device].live]

\* isConnected(): try { return !!(this.device && this.device.isConnected()) }
\*                catch { return false }
\* check is what the SDK's live-check did ("none": it was not called).
IsConnected ==
    IF device = Null
    THEN [threw |-> FALSE, answer |-> FALSE, check |-> "none"]
    ELSE [threw |-> FALSE, answer |-> SdkIsConnected(device) = "true",
          check |-> SdkIsConnected(device)]

\* getPrinter()
GetPrinter == printer

\* getEndpoint()
GetEndpoint == [ip |-> ip, port |-> port]

\* handleConnect that only knows "SSL_CONNECT_OK".
ConnectSucceeded_SslOnly(result) == result = "SSL_CONNECT_OK"

\* handleConnect that only knows "OK".
ConnectSucceeded_OnlyOK(result) == result = "OK"

\* handleConnect: result === "OK" || result === "SSL_CONNECT_OK"
ConnectSucceeded(result) == result = "OK" \/ result = "SSL_CONNECT_OK"

\* handleCreate that takes every result for a success.
CreateSucceeded_Always(result) == TRUE

\* handleCreate that takes handleConnect's success codes.
CreateSucceeded_SslToo(result) == result = "OK" \/ result = "SSL_CONNECT_OK"

\* handleCreate: result === "OK"
CreateSucceeded(result) == result = "OK"

ConnectError(result) == "Failed to connect: " \o result
CreateError(result) == "CreateDevice failed: " \o result

\* this.device.deleteDevice is there (the SDK's session object has the primitive).
HasDeleteDevice(s) == TRUE

\* connect() without the already-connected return.
ConnectBranch_NoReuse(connected, dev) == IF dev # Null THEN "heal" ELSE "load"

\* connect() without the stale-session cleanup.
ConnectBranch_NoHeal(connected, dev) == IF connected THEN "reuse" ELSE "load"

\* connect(), up to its first await: return at once, heal a stale session, or load.
ConnectBranch(connected, dev) ==
    IF connected THEN "reuse" ELSE IF dev # Null THEN "heal" ELSE "load"

\* createPrinter() without the reuse of this.printer.
CreatePrinterBranch_NoReuse(dev, prn) == IF dev = Null THEN "reject" ELSE "create"

\* createPrinter() that takes a missing session for a printer already made.
CreatePrinterBranch_NoReject(dev, prn) ==
    IF dev = Null \/ prn # Null THEN "reuse" ELSE "create"

\* createPrinter(): the executor's two early returns, else createDevice.
CreatePrinterBranch(dev, prn) ==
    IF dev = Null THEN "reject" ELSE IF prn # Null THEN "reuse" ELSE "create"

\* disconnect() that closes the session without deleting the printer device.
DisconnectBranch_SkipDelete(dev, prn) == IF dev = Null THEN "noop" ELSE "cleanup"

\* disconnect() without the early return for a null this.device.
DisconnectBranch_NoEarlyReturn(dev, prn) ==
    IF dev # Null /\ prn # Null THEN "delete" ELSE "cleanup"

\* disconnect(): nothing to do, delete the printer device first, or clean up.
DisconnectBranch(dev, prn) ==
    IF dev = Null THEN "noop"
    ELSE IF prn # Null /\ HasDeleteDevice(dev) THEN "delete" ELSE "cleanup"

\* loadSdk() that trusts only its own flag, not the SDK's global entry point.
LoadSdkBranch_FlagOnly(loaded, present, script) ==
    IF loaded THEN "ready"
    ELSE IF script # "absent" THEN "attach" ELSE "inject"

\* loadSdk() that does not look for a script element already in the document.
LoadSdkBranch_NoAttach(loaded, present, script) ==
    IF loaded \/ present THEN "ready" ELSE "inject"

\* loadSdk(): already there, attach to the script element found, or inject one.
LoadSdkBranch(loaded, present, script) ==
    IF loaded \/ present THEN "ready"
    ELSE IF script # "absent" THEN "attach" ELSE "inject"

\* cleanup() that forgets this.printer = null.
Cleanup_KeepPrinter(throws) ==
    [escaped |-> FALSE,
     device |-> Null,
     printer |-> printer,
     sess |-> IF device = Null THEN sess
              ELSE [sess EXCEPT ![device].closed = TRUE, ![device].live = "false"],
     events |-> IF device = Null THEN << <<"caught", Null>> >>
                ELSE IF throws THEN << <<"disconnect", device>>, <<"caught", device>> >>
                ELSE << <<"disconnect", device>> >>]

\* cleanup() that nulls the handles without calling this.device.disconnect().
Cleanup_NoSdkDisconnect(throws) ==
    [escaped |-> FALSE,
     device |-> Null,
     printer |-> Null,
     sess |-> sess,
     events |-> << <<"caught", Null>> >>]

\* cleanup(): try { this.device.disconnect() } catch {}; both handles to null.
\* With this.device already null the call itself is a TypeError, caught too.
\* `throws` is whether the SDK's disconnect() throws; nothing escapes the try.
Cleanup(throws) ==
    [escaped |-> FALSE,
     device |-> Null,
     printer |-> Null,
     sess |-> IF device = Null THEN sess
              ELSE [sess EXCEPT ![device].closed = TRUE, ![device].live = "false"],
     events |-> IF device = Null THEN << <<"caught", Null>> >>
                ELSE IF throws THEN << <<"disconnect", device>>, <<"caught", device>> >>
                ELSE << <<"disconnect", device>> >>]

\* document.body.appendChild(script): one more element with this src; the one
\* querySelector finds is loading.
Injected(script) ==
    [state |-> IF script.state = "absent" THEN "loading" ELSE script.state,
     injected |-> IF script.injected = 0 THEN 1 ELSE 2]

\* Where a call goes on once the disconnect() it runs (or is) has resolved.
AfterDisconnect(call) ==
    IF call.op = "connect" THEN [call EXCEPT !.pc = "afterDisconnect"]
    ELSE Resolve(call, Null)

\* Where a call goes on once the loadSdk() it runs (or is) has resolved.
AfterLoad(call) ==
    IF call.op = "connect" THEN [call EXCEPT !.pc = "afterLoad"]
    ELSE Resolve(call, Null)

\* loadSdk() whose onerror handler rejects with the event, like the listener does.
LoadError_Event(call) == NoMessage

\* What loadSdk() rejects with: the element's creator rejects with an Error, a
\* listener attached to an element found rejects with the event itself.
LoadError(call) ==
    IF \E i \in DOMAIN call.trace : call.trace[i][1] = "inject"
    THEN "Failed to load Epson SDK" ELSE NoMessage

\* Sessions and printer objects still to come, counting the calls that will
\* ask for one: a call is only made when the run has room for what it may create.
WillConnect(c) ==
    calls[c].op = "connect"
    /\ calls[c].pc \in {"awaitDelete", "afterDisconnect", "awaitScript", "afterLoad"}
RoomForSession == Len(sess) + Cardinality({c \in Slots : WillConnect(c)}) < MaxSessions
RoomForPrinter ==
    nPrinters + Cardinality({c \in Slots : calls[c].pc = "awaitCreate"}) < MaxPrinters

(* ------------------- EposClient: the bodies of the calls -------------- *)

\* cleanup() run by the call in slot c.
RunCleanup(c, call) ==
    \E throws \in BOOLEAN :
        LET r == Cleanup(throws) IN
        /\ device' = r.device
        /\ printer' = r.printer
        /\ sess' = r.sess
        /\ calls' = [calls EXCEPT ![c] =
              LET ran == [call EXCEPT !.trace = @ \o r.events] IN
              IF r.escaped THEN Reject(ran, "TypeError") ELSE AfterDisconnect(ran)]

\* disconnect(), from the call to the pending delete callback or to the end.
RunDisconnect(c, call) ==
    LET branch == DisconnectBranch(device, printer) IN
    \/ /\ branch = "noop"
       /\ calls' = [calls EXCEPT ![c] = AfterDisconnect(call)]
       /\ UNCHANGED <<device, printer, sess>>
    \/ /\ branch = "delete"
       \* deleteDevice(this.printer, handleDelete): the callback is pending
       /\ calls' = [calls EXCEPT
                       ![c] = [Did(call, "deleteDevice", device) EXCEPT
                                  !.pc = "awaitDelete", !.sid = device]]
       /\ UNCHANGED <<device, printer, sess>>
    \/ /\ branch = "delete"
       \* deleteDevice throws: catch, cleanup()
       /\ RunCleanup(c, Did(Did(call, "deleteDevice", device), "caught", device))
    \/ /\ branch = "cleanup"
       /\ RunCleanup(c, call)

\* loadSdk(), from the call to the pending script or to the end.
RunLoadSdk(c, call) ==
    LET branch == LoadSdkBranch(sdkLoaded, epson, scripts[sdkUrl].state) IN
    \/ /\ branch = "ready"
       /\ sdkLoaded' = TRUE
       /\ calls' = [calls EXCEPT ![c] = AfterLoad(call)]
       /\ UNCHANGED scripts
    \/ /\ branch = "attach"
       \* existingScript.addEventListener("load" / "error")
       /\ calls' = [calls EXCEPT
                       ![c] = [Did(call, "attach", Null) EXCEPT
                                  !.pc = "awaitScript", !.url = sdkUrl]]
       /\ UNCHANGED <<sdkLoaded, scripts>>
    \/ /\ branch = "inject"
       \* document.body.appendChild(script)
       /\ scripts' = [scripts EXCEPT ![sdkUrl] = Injected(@)]
       /\ calls' = [calls EXCEPT
                       ![c] = [Did(call, "inject", Null) EXCEPT
                                  !.pc = "awaitScript", !.url = sdkUrl]]
       /\ UNCHANGED sdkLoaded

\* connect(ipOverride, portOverride), from the call to its first await.
RunConnect(c, call) ==
    LET branch == ConnectBranch(IsConnected.answer, device) IN
    \/ /\ branch = "reuse"
       /\ calls' = [calls EXCEPT ![c] = Resolve(call, Null)]
       /\ UNCHANGED <<device, printer, sess, sdkLoaded, scripts>>
    \/ /\ branch = "heal"
       /\ RunDisconnect(c, call)
       /\ UNCHANGED <<sdkLoaded, scripts>>
    \/ /\ branch = "load"
       /\ RunLoadSdk(c, call)
       /\ UNCHANGED <<device, printer, sess>>

\* createPrinter(), from the call to the pending create callback or to the end.
RunCreatePrinter(c, call) ==
    LET branch == CreatePrinterBranch(device, printer) IN
    /\ calls' = [calls EXCEPT ![c] =
          CASE branch = "reject" -> Reject(call, "Device not connected.")
            [] branch = "reuse" -> Resolve(call, printer)
            [] OTHER -> [Did(call, "createDevice", device) EXCEPT
                            !.pc = "awaitCreate", !.sid = device]]
    \* this.device.createDevice(...): one more request on the session
    /\ sess' = IF branch = "create"
               THEN [sess EXCEPT ![device].asked = IF @ = 0 THEN 1 ELSE 2]
               ELSE sess
    /\ UNCHANGED <<device, printer, sdkLoaded, scripts>>

(* ------------------ EposClient: calls made by a caller ---------------- *)

\* client.connect(a.ip, a.port)
ConnectCall(c, a) ==
    /\ Built
    /\ IsFree(c)
    /\ IsConnected.answer \/ RoomForSession
    /\ RunConnect(c, [NewCall("connect", "user") EXCEPT !.arg = a])
    /\ UNCHANGED <<cfgVars, epson, peerLoaded, nPrinters, hookVars>>

\* client.createPrinter()
CreatePrinterCall(c) ==
    /\ Built
    /\ IsFree(c)
    /\ CreatePrinterBranch(device, printer) = "create" => RoomForPrinter
    /\ RunCreatePrinter(c, NewCall("createPrinter", "user"))
    /\ UNCHANGED <<cfgVars, epson, peerLoaded, nPrinters, hookVars>>

\* client.disconnect()
DisconnectCall(c) ==
    /\ Built
    /\ IsFree(c)
    /\ RunDisconnect(c, NewCall("disconnect", "user"))
    /\ UNCHANGED <<cfgVars, sdkLoaded, pageVars, nPrinters, hookVars>>

\* client.loadSdk()
LoadSdkCall(c) ==
    /\ Built
    /\ IsFree(c)
    /\ RunLoadSdk(c, NewCall("loadSdk", "user"))
    /\ UNCHANGED <<cfgVars, device, printer, epson, peerLoaded, sdkVars, hookVars>>

\* client.isConnected(): synchronous, its return value is in the slot at once.
RunIsConnected(c, call) ==
    LET r == IsConnected IN
    calls' = [calls EXCEPT ![c] =
                 [call EXCEPT !.pc = "done",
                              !.outcome = IF r.threw THEN "threw" ELSE "returned",
                              !.answer = r.answer,
                              !.code = r.check]]

IsConnectedCall(c) ==
    /\ Built
    /\ IsFree(c)
    /\ RunIsConnected(c, Value("isConnected", "user"))
    /\ UNCHANGED <<mgrVars, pageVars, sdkVars, hookVars>>

\* A synchronous method that has returned: its slot records the call.
Returned(op) == [Value(op, "user") EXCEPT !.pc = "done", !.outcome = "returned"]

\* client.setSdkUrl(u): this.sdkUrl = sdkUrl; this.sdkLoaded = false
SetSdkUrl(c, u) ==
    /\ Built
    /\ IsFree(c)
    /\ sdkUrl' = u
    /\ sdkLoaded' = FALSE
    /\ calls' = [calls EXCEPT ![c] = [Returned("setSdkUrl") EXCEPT !.url = u]]
    /\ UNCHANGED <<options, client, ip, port, device, printer, pageVars, sdkVars, hookVars>>

\* A type test that no port passes.
IsNumber_Never(p) == FALSE

\* typeof port === "number", for an optional argument that is a number when passed.
IsNumber(p) == p # Omitted

\* client.setEndpoint(h, p): this.ip = ip; if (typeof port === "number") this.port = port
SetEndpoint(c, h, p) ==
    /\ Built
    /\ IsFree(c)
    /\ ip' = h
    /\ port' = IF IsNumber(p) THEN p[1] ELSE port
    /\ calls' = [calls EXCEPT ![c] =
                    [Returned("setEndpoint") EXCEPT !.arg = [ip |-> <<h>>, port |-> p]]]
    /\ UNCHANGED <<options, client, sdkUrl, sdkLoaded, device, printer, pageVars, sdkVars, hookVars>>

\* The caller's continuation takes the settled result: the slot is free again.
Return(c) ==
    /\ calls[c].pc = "done"
    /\ calls[c].by \in {"user", "unmount", "peer"}
    /\ calls' = [calls EXCEPT ![c] = FreeSlot]
    /\ UNCHANGED <<mgrVars, pageVars, sdkVars, hookVars>>

(* ------------- a second EposClient sharing the document -------------- *)

(* ---------------------- Status values and labels ---------------------- *)

\* Object.values(obj) of an object whose values are strings.
ObjectValues(obj) == {Str(obj[k]) : k \in DOMAIN obj}

\* An equality that compares the printed forms only.
SameValueZero_Printed(x, y) == x.str = y.str

\* SameValueZero, the comparison of Array.prototype.includes: primitives are
\* the same when type and value are; an object or array passed in is never
\* the same as an element of another array.
SameValueZero(x, y) ==
    /\ x.type = y.type
    /\ x.type \notin {"object", "array"}
    /\ x.str = y.str

\* arr.includes(v)
Includes(arr, v) == \E x \in arr : SameValueZero(x, v)

\* isValidPrinterStatus(status)
isValidPrinterStatus(v) == Includes(ObjectValues(PRINTER_STATUS), v)

\* obj[key] for a string key: undefined when obj has no such property.
Lookup(obj, key) == IF key \in DOMAIN obj THEN Str(obj[key]) ELSE Undefined

\* A caller evaluates isValidPrinterStatus(v).
IsValidPrinterStatusCall(c, v) ==
    /\ IsFree(c)
    /\ calls' = [calls EXCEPT
                    ![c] = [Returned("isValidPrinterStatus") EXCEPT
                               !.input = v,
                               !.output = Bool(isValidPrinterStatus(v))]]
    /\ UNCHANGED <<mgrVars, pageVars, sdkVars, hookVars>>

\* A caller reads PRINTER_STATUS_LABELS[key].
LabelCall(c, key) ==
    /\ IsFree(c)
    /\ calls' = [calls EXCEPT
                    ![c] = [Returned("PRINTER_STATUS_LABELS") EXCEPT
                               !.input = Str(key),
                               !.output = Lookup(PRINTER_STATUS_LABELS, key)]]
    /\ UNCHANGED <<mgrVars, pageVars, sdkVars, hookVars>>

\* The second manager was constructed with the same options.
PeerUrl == CtorOptions.sdkUrl[1]

\* peer.loadSdk(): the same method on the other instance, which has its own
\* flag and shares window.epson and the document's script elements.
PeerLoadSdk(c) ==
    LET call == Value("loadSdk", "peer")
        branch == LoadSdkBranch(peerLoaded, epson, scripts[PeerUrl].state)
    IN
    /\ IsFree(c)
    /\ \/ /\ branch = "ready"
          /\ peerLoaded' = TRUE
          /\ calls' = [calls EXCEPT ![c] = Resolve(call, Null)]
          /\ UNCHANGED scripts
       \/ /\ branch = "attach"
          /\ calls' = [calls EXCEPT
                          ![c] = [Did(call, "attach", Null) EXCEPT
                                     !.pc = "awaitScript", !.url = PeerUrl]]
          /\ UNCHANGED <<peerLoaded, scripts>>
       \/ /\ branch = "inject"
          /\ scripts' = [scripts EXCEPT ![PeerUrl] = Injected(@)]
          /\ calls' = [calls EXCEPT
                          ![c] = [Did(call, "inject", Null) EXCEPT
                                     !.pc = "awaitScript", !.url = PeerUrl]]
          /\ UNCHANGED peerLoaded
    /\ UNCHANGED <<mgrVars, epson, sdkVars, hookVars>>

(* ------------------- EposClient: continuations of connect ------------- *)

\* connect() after `await this.disconnect()`: await this.loadSdk()
ConnectAfterDisconnect(c) ==
    /\ calls[c].pc = "afterDisconnect"
    /\ RunLoadSdk(c, calls[c])
    /\ UNCHANGED <<cfgVars, device, printer, epson, peerLoaded, sdkVars, hookVars>>

\* connect() after `await this.loadSdk()`: resolve the endpoint, open the session.
ConnectAfterLoad(c) ==
    LET call == calls[c]
        host == Coalesce(call.arg.ip, ip)
        prt == Coalesce(call.arg.port, port)
        s == Len(sess) + 1
    IN
    /\ call.pc = "afterLoad"
    /\ IF host = ""
       THEN /\ calls' = [calls EXCEPT ![c] = Reject(call,
                   "Printer IP not provided. Pass in constructor, setEndpoint(), or connect(ip, port).")]
            /\ UNCHANGED <<device, sess>>
       ELSE IF ~epson
       THEN /\ calls' = [calls EXCEPT ![c] =
                            Reject(call, "Epson ePOS SDK not available after load.")]
            /\ UNCHANGED <<device, sess>>
       ELSE \* this.device = new window.epson.ePOSDevice(); this.device.connect(...)
            /\ device' = s
            /\ sess' = Append(sess, [live |-> "false", closed |-> FALSE, asked |-> 0, made |-> 0])
            /\ calls' = [calls EXCEPT
                            ![c] = [Did(Did(call, "new", s), "connect", s) EXCEPT
                                       !.pc = "awaitConnect", !.sid = s,
                                       !.host = host, !.port = prt]]
    /\ UNCHANGED <<cfgVars, printer, sdkLoaded, pageVars, nPrinters, hookVars>>

(* ------------------------- the page: script events -------------------- *)

Waiting(c, u) == calls[c].pc = "awaitScript" /\ calls[c].url = u



\* The script element with src u fires load.  Its listeners were attached while
\* it was loading; `defines` is whether the script sets the SDK's global entry.
ScriptLoad(u, defines) ==
    /\ scripts[u].state = "loading"
    /\ scripts' = [scripts EXCEPT ![u].state = "loaded"]
    /\ epson' = (epson \/ defines)
    /\ sdkLoaded' = IF \E c \in Slots : Waiting(c, u) /\ calls[c].by # "peer"
                    THEN TRUE ELSE sdkLoaded
    /\ peerLoaded' = IF \E c \in Slots : Waiting(c, u) /\ calls[c].by = "peer"
                     THEN TRUE ELSE peerLoaded
    /\ calls' = [c \in Slots |->
                    IF Waiting(c, u) THEN AfterLoad(calls[c]) ELSE calls[c]]
    /\ UNCHANGED <<cfgVars, device, printer, sdkVars, hookVars>>

\* The script element with src u fires error.
ScriptError(u) ==
    /\ scripts[u].state = "loading"
    /\ scripts' = [scripts EXCEPT ![u].state = "failed"]
    /\ calls' = [c \in Slots |->
                    IF Waiting(c, u) THEN Reject(calls[c], LoadError(calls[c]))
                    ELSE calls[c]]
    /\ UNCHANGED <<mgrVars, epson, peerLoaded, sdkVars, hookVars>>

(* ------------------------ the SDK: its callbacks ---------------------- *)

\* The codes with which the SDK reports an open session.
SdkConnected(result) == result \in {"OK", "SSL_CONNECT_OK"}

\* The connect callback of the session of call c fires with `result`.
ConnectCallback(c, result) ==
    LET call == [calls[c] EXCEPT !.code = result] IN
    /\ calls[c].pc = "awaitConnect"
    /\ sess' = [sess EXCEPT ![call.sid].live =
                   IF SdkConnected(result) /\ ~sess[call.sid].closed THEN "true" ELSE @]
    /\ calls' = [calls EXCEPT ![c] =
                    IF ConnectSucceeded(result) THEN Resolve(call, Null)
                    ELSE Reject(call, ConnectError(result))]
    /\ UNCHANGED <<mgrVars, pageVars, nPrinters, hookVars>>

\* The createDevice callback of call c fires with (devPrinter, result): the SDK
\* hands out a new printer object with "OK" and null otherwise.
CreateCallback(c, result) ==
    LET call == [calls[c] EXCEPT !.code = result]
        devPrinter == IF result = "OK" THEN nPrinters + 1 ELSE Null
    IN
    /\ calls[c].pc = "awaitCreate"
    /\ nPrinters' = IF result = "OK" THEN nPrinters + 1 ELSE nPrinters
    /\ sess' = IF result = "OK"
               THEN [sess EXCEPT ![call.sid].made = IF @ = 0 THEN 1 ELSE 2]
               ELSE sess
    /\ IF CreateSucceeded(result)
       THEN /\ printer' = devPrinter
            /\ calls' = [calls EXCEPT ![c] = Resolve(call, devPrinter)]
       ELSE /\ printer' = printer
            /\ calls' = [calls EXCEPT ![c] = Reject(call, CreateError(result))]
    /\ UNCHANGED <<cfgVars, device, sdkLoaded, pageVars, hookVars>>

\* The deleteDevice callback of call c fires: handleDelete, cleanup().
DeleteCallback(c) ==
    /\ calls[c].pc = "awaitDelete"
    /\ RunCleanup(c, Did(calls[c], "deleteFired", calls[c].sid))
    /\ UNCHANGED <<cfgVars, sdkLoaded, pageVars, nPrinters, hookVars>>

\* The held session stops answering its live-check with true: the connection
\* drops, or the check starts to throw.
LiveChange(v) ==
    /\ device # Null
    /\ sess[device].live # v
    /\ sess' = [sess EXCEPT ![device].live = v]
    /\ UNCHANGED <<mgrVars, pageVars, nPrinters, calls, hookVars>>

(* ------------------------- useEposPrinter ----------------------------- *)

\* A printer object is left for each connect() of the binding that may ask for one.
RoomForHookPrinter ==
    nPrinters + Cardinality({c \in Slots : calls[c].by = "hookConnect"}) < MaxPrinters

\* The value the binding's own promise settles with, for the component to take.
HookSettled(op, v) == Resolve(Value(op, "user"), v)

\* connect() of the binding without setStatus(CONNECTING).
HookConnect_KeepStatus(c) ==
    /\ Built
    /\ mounted
    /\ IsFree(c)
    /\ IsConnected.answer \/ RoomForSession
    /\ RoomForHookPrinter
    /\ status' = status
    /\ error' = NoError
    /\ RunConnect(c, NewCall("connect", "hookConnect"))
    /\ UNCHANGED <<cfgVars, epson, peerLoaded, nPrinters, printerRef, mounted>>

\* connect(): setStatus(CONNECTING); setError(null); await clientRef.current.connect()
HookConnect(c) ==
    /\ Built
    /\ mounted
    /\ IsFree(c)
    /\ IsConnected.answer \/ RoomForSession
    /\ RoomForHookPrinter
    /\ status' = PRINTER_STATUS.CONNECTING
    /\ error' = NoError
    /\ RunConnect(c, NewCall("connect", "hookConnect"))
    /\ UNCHANGED <<cfgVars, epson, peerLoaded, nPrinters, printerRef, mounted>>

\* A catch block that records the message and leaves Status as it is.
HookCatch_KeepStatus(c) ==
    /\ error' = calls[c].error
    /\ status' = status
    /\ printerRef' = Null
    /\ calls' = [calls EXCEPT ![c] = HookSettled("hookConnect", Null)]
    /\ UNCHANGED <<mgrVars, pageVars, sdkVars, mounted>>

\* A catch block that forgets printerRef.current = null.
HookCatch_KeepPrinter(c) ==
    /\ error' = calls[c].error
    /\ status' = PRINTER_STATUS.ERROR
    /\ printerRef' = printerRef
    /\ calls' = [calls EXCEPT ![c] = HookSettled("hookConnect", Null)]
    /\ UNCHANGED <<mgrVars, pageVars, sdkVars, mounted>>

\* connect(), the catch block: setError(err.message); setStatus(ERROR);
\* printerRef.current = null; return null
HookCatch(c) ==
    /\ error' = calls[c].error
    /\ status' = PRINTER_STATUS.ERROR
    /\ printerRef' = Null
    /\ calls' = [calls EXCEPT ![c] = HookSettled("hookConnect", Null)]
    /\ UNCHANGED <<mgrVars, pageVars, sdkVars, mounted>>

\* connect() after `await clientRef.current.connect()`:
\* await clientRef.current.createPrinter(), or the catch block.
HookConnectAfterConnect(c) ==
    /\ calls[c].by = "hookConnect"
    /\ calls[c].op = "connect"
    /\ calls[c].pc = "done"
    /\ IF calls[c].outcome = "resolved"
       THEN /\ RunCreatePrinter(c, NewCall("createPrinter", "hookConnect"))
            /\ UNCHANGED <<cfgVars, epson, peerLoaded, nPrinters, hookVars>>
       ELSE HookCatch(c)

\* connect() after `await clientRef.current.createPrinter()`:
\* printerRef.current = printerObj; setStatus(CONNECTED); return printerObj
HookConnectAfterCreate(c) ==
    /\ calls[c].by = "hookConnect"
    /\ calls[c].op = "createPrinter"
    /\ calls[c].pc = "done"
    /\ IF calls[c].outcome = "resolved"
       THEN /\ printerRef' = calls[c].value
            /\ status' = PRINTER_STATUS.CONNECTED
            /\ calls' = [calls EXCEPT ![c] = HookSettled("hookConnect", calls[c].value)]
            /\ UNCHANGED <<mgrVars, pageVars, sdkVars, error, mounted>>
       ELSE HookCatch(c)

\* disconnect(): await clientRef.current.disconnect()
HookDisconnect(c) ==
    /\ Built
    /\ mounted
    /\ IsFree(c)
    /\ RunDisconnect(c, NewCall("disconnect", "hookDisconnect"))
    /\ UNCHANGED <<cfgVars, sdkLoaded, pageVars, nPrinters, hookVars>>

\* disconnect() of the binding that leaves printerRef.current alone.
HookDisconnectAfter_KeepRef(c) ==
    /\ calls[c].by = "hookDisconnect"
    /\ calls[c].pc = "done"
    /\ printerRef' = printerRef
    /\ status' = PRINTER_STATUS.IDLE
    /\ calls' = [calls EXCEPT ![c] = HookSettled("hookDisconnect", Null)]
    /\ UNCHANGED <<mgrVars, pageVars, sdkVars, error, mounted>>

\* disconnect() after the await: printerRef.current = null; setStatus(IDLE)
HookDisconnectAfter(c) ==
    /\ calls[c].by = "hookDisconnect"
    /\ calls[c].pc = "done"
    /\ printerRef' = Null
    /\ status' = PRINTER_STATUS.IDLE
    /\ calls' = [calls EXCEPT ![c] = HookSettled("hookDisconnect", Null)]
    /\ UNCHANGED <<mgrVars, pageVars, sdkVars, error, mounted>>

\* Cleanup of the effect that never calls clientInstance.disconnect().
Unmount_NoDisconnect(c) ==
    /\ Built
    /\ mounted
    /\ IsFree(c)
    /\ mounted' = FALSE
    /\ UNCHANGED <<mgrVars, pageVars, sdkVars, calls, status, error, printerRef>>

\* The owning component is torn down: the effect's cleanup function runs
\* clientInstance.disconnect(), whose promise nobody awaits.
Unmount(c) ==
    /\ Built
    /\ mounted
    /\ IsFree(c)
    /\ mounted' = FALSE
    /\ RunDisconnect(c, NewCall("disconnect", "unmount"))
    /\ UNCHANGED <<cfgVars, sdkLoaded, pageVars, nPrinters, status, error, printerRef>>

\* isConnected: clientRef.current.isConnected.bind(clientRef.current)
HookIsConnected(c) ==
    /\ mounted
    /\ IsConnectedCall(c)

(* --------------------------- specifications --------------------------- *)

\* No asynchronous operation is in flight or waiting to be observed.
Quiet == \A c \in Slots : calls[c].op \in {"none"} \cup SyncOps

\* The asynchronous operations a caller of the manager starts.
StartCall ==
    \E c \in Slots :
        \/ \E a \in ConnectArgs : ConnectCall(c, a)
        \/ CreatePrinterCall(c)
        \/ DisconnectCall(c)
        \/ LoadSdkCall(c)

\* What goes on by itself: continuations, events, callbacks, results taken.
Progress ==
    \/ \E c \in Slots :
        \/ ConnectAfterDisconnect(c)
        \/ ConnectAfterLoad(c)
        \/ \E r \in ResultCodes : ConnectCallback(c, r)
        \/ \E r \in ResultCodes : CreateCallback(c, r)
        \/ DeleteCallback(c)
        \/ Return(c)
    \/ \E u \in Urls : \E d \in BOOLEAN : ScriptLoad(u, d)
    \/ \E u \in Urls : ScriptError(u)
    \/ \E v \in {"false", "throws"} : LiveChange(v)

\* The same calls made by a caller that awaits each operation before it starts
\* the next ("all operations ... are asynchronous and must be awaited").
ConnectAwaited(c, a) == Quiet /\ ConnectCall(c, a)
CreatePrinterAwaited(c) == Quiet /\ CreatePrinterCall(c)
DisconnectAwaited(c) == Quiet /\ DisconnectCall(c)
LoadSdkAwaited(c) == Quiet /\ LoadSdkCall(c)
SetSdkUrlAwaited(c, u) == Quiet /\ SetSdkUrl(c, u)
SetEndpointAwaited(c, h, p) == Quiet /\ SetEndpoint(c, h, p)

\* The manager under such a caller; isConnected() is synchronous and is called
\* at any time.
Next ==
    \/ \E c \in Slots :
        \/ \E a \in ConnectArgs : ConnectAwaited(c, a)
        \/ CreatePrinterAwaited(c)
        \/ DisconnectAwaited(c)
        \/ LoadSdkAwaited(c)
    \/ \E c \in Slots : IsConnectedCall(c)
    \/ Progress

Spec == Init /\ [][Next]_vars

\* The manager under a caller that starts operations at any time, also while
\* others are in flight.
NextConcurrent ==
    \/ StartCall
    \/ \E c \in Slots : IsConnectedCall(c)
    \/ Progress

SpecConcurrent == Init /\ [][NextConcurrent]_vars

(* The manager under a caller that starts operations at any time but keeps  *)
(* the one rule the manager asks of it: no connect() while one is in flight. *)

ConnectInFlight == \E c \in Slots : calls[c].op = "connect" /\ calls[c].pc # "done"

ConnectExclusive(c, a) == ~ConnectInFlight /\ ConnectCall(c, a)

NextOneConnect ==
    \/ \E c \in Slots : \E a \in ConnectArgs : ConnectExclusive(c, a)
    \/ \E c \in Slots : CreatePrinterCall(c)
    \/ \E c \in Slots : DisconnectCall(c)
    \/ \E c \in Slots : LoadSdkCall(c)
    \/ \E c \in Slots : IsConnectedCall(c)
    \/ Progress

SpecOneConnect == Init /\ [][NextOneConnect]_vars

(* The binding: the component is the only caller of the manager.           *)

HookStart == \E c \in Slots : HookConnect(c) \/ HookDisconnect(c)

HookConnectAwaited(c) == Quiet /\ HookConnect(c)
HookDisconnectAwaited(c) == Quiet /\ HookDisconnect(c)

HookProgress ==
    \E c \in Slots :
        \/ HookConnectAfterConnect(c)
        \/ HookConnectAfterCreate(c)
        \/ HookDisconnectAfter(c)

\* The binding under a component that awaits connect() and disconnect().
NextHook ==
    \/ \E c \in Slots : HookConnectAwaited(c) \/ HookDisconnectAwaited(c)
    \/ \E c \in Slots : HookIsConnected(c)
    \/ \E c \in Slots : Unmount(c)
    \/ HookProgress
    \/ Progress

SpecHook == Init /\ [][NextHook]_vars

\* The binding under a component that calls connect() and disconnect() at any
\* time, also while others are in flight.
NextHookConcurrent ==
    \/ HookStart
    \/ \E c \in Slots : HookIsConnected(c)
    \/ \E c \in Slots : Unmount(c)
    \/ HookProgress
    \/ Progress

SpecHookConcurrent == Init /\ [][NextHookConcurrent]_vars

(* Construction: the options are drawn, the constructor runs, and the       *)
(* manager it built (if any) is used as in Spec.                           *)

(* The binding when everything that was requested eventually happens: a     *)
(* pending script element fires load or error, a pending SDK callback fires, *)
(* and a continuation whose awaited promise has settled runs.                *)

ScriptSettles(u) == ScriptError(u) \/ \E d \in BOOLEAN : ScriptLoad(u, d)

Continues(c) ==
    \/ ConnectAfterDisconnect(c)
    \/ ConnectAfterLoad(c)
    \/ HookConnectAfterConnect(c)
    \/ HookConnectAfterCreate(c)
    \/ HookDisconnectAfter(c)

CallbackFires(c) ==
    \/ \E r \in ResultCodes : ConnectCallback(c, r)
    \/ \E r \in ResultCodes : CreateCallback(c, r)
    \/ DeleteCallback(c)

Fairness ==
    /\ \A u \in Urls : WF_vars(ScriptSettles(u))
    /\ \A c \in Slots : WF_vars(CallbackFires(c))
    /\ \A c \in Slots : WF_vars(Continues(c))

SpecHookLive == Init /\ [][NextHook]_vars /\ Fairness

NextNew ==
    \/ New
    \/ Next

SpecNew == InitNew /\ [][NextNew]_vars

(* Reconfiguration: a caller that awaits each operation and changes the     *)
(* SDK URL and the endpoint between operations, then loads and connects.    *)

NextConfig ==
    \/ \E c \in Slots :
        \/ \E u \in Urls : SetSdkUrlAwaited(c, u)
        \/ \E h \in Hosts : \E p \in PortArgs : SetEndpointAwaited(c, h, p)
        \/ \E a \in ConnectArgs : ConnectAwaited(c, a)
        \/ LoadSdkAwaited(c)
        \/ DisconnectAwaited(c)
        \/ ConnectAfterDisconnect(c)
        \/ ConnectAfterLoad(c)
        \/ \E r \in ResultCodes : ConnectCallback(c, r)
        \/ Return(c)
    \/ \E u \in Urls : \E d \in BOOLEAN : ScriptLoad(u, d)
    \/ \E u \in Urls : ScriptError(u)

SpecConfig == Init /\ [][NextConfig]_vars

(* Loading the SDK: two managers on one page call loadSdk() at any time.    *)

NextLoad ==
    \/ \E c \in Slots : LoadSdkCall(c)
    \/ \E c \in Slots : PeerLoadSdk(c)
    \/ \E c \in Slots : \E u \in Urls : SetSdkUrl(c, u)
    \/ \E u \in Urls : \E d \in BOOLEAN : ScriptLoad(u, d)
    \/ \E u \in Urls : ScriptError(u)
    \/ \E c \in Slots : Return(c)

SpecLoad == Init /\ [][NextLoad]_vars

(* Status values: callers evaluate the validity predicate and read labels.  *)

NextStatus ==
    \/ \E c \in Slots : \E v \in StatusInputs : IsValidPrinterStatusCall(c, v)
    \/ \E c \in Slots : \E k \in StatusStrings : LabelCall(c, k)
    \/ \E c \in Slots : Return(c)

SpecStatus == Init /\ [][NextStatus]_vars

(* ------------------------------- claims ------------------------------- *)

\* The events of a trace, by name.
Has(tr, name) == \E i \in DOMAIN tr : tr[i][1] = name

\* Slot c takes a new call of operation op in this step.
Called(c, op) == calls[c].pc = "free" /\ calls'[c].op = op

\* The held session answers its live-check with true.
Live == device # Null /\ sess[device].live = "true"

\* C1: connect() called while a session is held and live resolves at once, for
\* every host/port override: no session object is created, the SDK connect
\* primitive is not invoked (the call invokes no primitive at all) and the held
\* session handle stays what it was.
ConnectReusesLiveSession ==
    [][\A c \in Slots :
          (Called(c, "connect") /\ Live) =>
              /\ calls'[c].pc = "done"
              /\ calls'[c].outcome = "resolved"
              /\ calls'[c].trace = << >>
              /\ device' = device
              /\ sess' = sess]_vars

\* C1 witness: a connect() with overrides has resolved without invoking anything,
\* on a held session.
ConnectReusedWithOverrides ==
    \E c \in Slots :
        /\ calls[c].op = "connect"
        /\ calls[c].pc = "done"
        /\ calls[c].outcome = "resolved"
        /\ calls[c].trace = << >>
        /\ calls[c].arg.ip = <<"10.0.0.9">>
        /\ calls[c].dev0 # Null
        /\ device = calls[c].dev0

\* C2: a createPrinter() that resolves through the createDevice callback leaves
\* the handle it returns in this.printer, and a createPrinter() called while that
\* handle is held resolves with the same handle without invoking createDevice:
\* the session has had exactly one printer object made on it.
CreatePrinterIdempotent ==
    /\ [][\A c \in Slots :
            /\ (calls[c].pc = "awaitCreate" /\ calls'[c].outcome = "resolved") =>
                  (calls'[c].value # Null /\ printer' = calls'[c].value)
            /\ (Called(c, "createPrinter") /\ device # Null /\ printer # Null) =>
                  /\ calls'[c].pc = "done"
                  /\ calls'[c].outcome = "resolved"
                  /\ calls'[c].value = printer
                  /\ calls'[c].trace = << >>
                  /\ printer' = printer
                  /\ sdkVars' = sdkVars]_vars
    /\ [](\A c \in Slots :
            (calls[c].op = "createPrinter" /\ calls[c].outcome = "resolved") =>
                /\ calls[c].value = printer
                /\ device = calls[c].dev0
                /\ sess[device].made = 1)

\* C2 witness: a second createPrinter() has resolved with the held handle and has
\* invoked nothing.
CreatePrinterReused ==
    \E c \in Slots :
        /\ calls[c].op = "createPrinter"
        /\ calls[c].outcome = "resolved"
        /\ calls[c].trace = << >>
        /\ calls[c].prn0 # Null
        /\ calls[c].value = calls[c].prn0

\* C3: in a disconnect() that starts with a printer device handle held (also the
\* one connect() runs on a stale session), the session's disconnect primitive is
\* invoked only after deleteDevice was invoked and its callback has fired or the
\* call has thrown.
DeleteBeforeDisconnect ==
    \A c \in Slots :
        LET tr == calls[c].trace IN
        \A i \in DOMAIN tr :
            (tr[i][1] = "disconnect" /\ calls[c].prn0 # Null) =>
                \E j \in 1..(i - 1) :
                    /\ tr[j][1] = "deleteDevice"
                    /\ \E k \in (j + 1)..(i - 1) : tr[k][1] \in {"deleteFired", "caught"}

\* C3 witness: a disconnect() that started with a printer held has invoked the
\* session's disconnect primitive after the delete callback fired.
DisconnectedAfterDelete ==
    \E c \in Slots :
        /\ calls[c].op = "disconnect"
        /\ calls[c].pc = "done"
        /\ calls[c].prn0 # Null
        /\ calls[c].trace = << <<"deleteDevice", calls[c].dev0>>,
                               <<"deleteFired", calls[c].dev0>>,
                               <<"disconnect", calls[c].dev0>> >>

\* C4: once a disconnect() has resolved, getPrinter() returns null and
\* isConnected() returns false, whether the SDK's deleteDevice and disconnect
\* succeeded or threw.
DisconnectedMeansCleared ==
    \A c \in Slots :
        (calls[c].op = "disconnect" /\ calls[c].pc = "done") =>
            /\ GetPrinter = Null
            /\ ~IsConnected.answer
            /\ ~Live

\* C4 witness: a disconnect() has resolved although both deleteDevice and the
\* session's disconnect threw.
DisconnectedThoughSdkThrew ==
    \E c \in Slots :
        /\ calls[c].op = "disconnect"
        /\ calls[c].outcome = "resolved"
        /\ calls[c].trace = << <<"deleteDevice", calls[c].dev0>>,
                               <<"caught", calls[c].dev0>>,
                               <<"disconnect", calls[c].dev0>>,
                               <<"caught", calls[c].dev0>> >>

\* C5: disconnect() never rejects; called with no session handle held it
\* resolves at once, invokes no SDK primitive and changes nothing of the
\* manager, the page or the SDK.
DisconnectNeverRejects ==
    /\ [](\A c \in Slots :
            (calls[c].op = "disconnect" /\ calls[c].pc = "done") =>
                /\ calls[c].outcome = "resolved"
                /\ calls[c].dev0 = Null => calls[c].trace = << >>)
    /\ [][\A c \in Slots :
            (Called(c, "disconnect") /\ device = Null) =>
                /\ calls'[c].pc = "done"
                /\ calls'[c].outcome = "resolved"
                /\ calls'[c].trace = << >>
                /\ UNCHANGED <<mgrVars, pageVars, sdkVars>>]_vars

\* C5 witness: a disconnect() called with no session held has resolved.
DisconnectedNothingHeld ==
    \E c \in Slots :
        /\ calls[c].op = "disconnect"
        /\ calls[c].outcome = "resolved"
        /\ calls[c].dev0 = Null
        /\ sdkLoaded

\* C6: isConnected() returns (it never throws), changes nothing, also while
\* another operation is pending, and answers true exactly when a session handle
\* is held and the SDK's live-check on it returns true; false when it throws.
IsConnectedIsTotal ==
    [][\A c \in Slots :
          Called(c, "isConnected") =>
              /\ calls'[c].pc = "done"
              /\ calls'[c].outcome = "returned"
              /\ calls'[c].answer = Live
              /\ \A d \in Slots \ {c} : calls'[d] = calls[d]
              /\ UNCHANGED <<mgrVars, pageVars, sdkVars, hookVars>>]_vars

\* C6 witness: isConnected() has returned false on a held session whose
\* live-check threw, while a createPrinter() was waiting for its callback.
IsConnectedFalseOnThrow ==
    \E c, d \in Slots :
        /\ calls[c].op = "isConnected"
        /\ calls[c].outcome = "returned"
        /\ calls[c].code = "throws"
        /\ ~calls[c].answer
        /\ calls[d].pc = "awaitCreate"

\* C7: a connect() called on a held session that is not live creates its new
\* session object (and invokes the connect primitive) only after the disconnect
\* cycle on the stale session: deleteDevice on it first when a printer handle was
\* held, then its disconnect primitive; and from the end of that cycle until the
\* new session is created both handles are null.
StaleSessionHealedFirst ==
    \A c \in Slots :
        LET call == calls[c]
            tr == call.trace
        IN
        (call.op = "connect" /\ call.dev0 # Null) =>
            /\ \A i \in DOMAIN tr :
                  tr[i][1] \in {"new", "connect"} =>
                      \E j \in 1..(i - 1) :
                          /\ tr[j] = <<"disconnect", call.dev0>>
                          /\ call.prn0 # Null =>
                                \E k \in 1..(j - 1) : tr[k] = <<"deleteDevice", call.dev0>>
            /\ call.pc \in {"afterDisconnect", "awaitScript", "afterLoad"} =>
                  (device = Null /\ printer = Null)

\* C7 witness: a connect() that found a stale session with a printer held has
\* gone on to invoke the connect primitive on a new session.
StaleSessionReplaced ==
    \E c \in Slots :
        /\ calls[c].op = "connect"
        /\ calls[c].dev0 # Null
        /\ calls[c].prn0 # Null
        /\ Has(calls[c].trace, "connect")
        /\ calls[c].sid # calls[c].dev0

\* C8 (as claimed): after a connect() rejected because the SDK connect callback
\* reported a failure code, the manager holds no session handle.
FailedConnectRetainsNoSession ==
    \A c \in Slots :
        (calls[c].op = "connect" /\ calls[c].pc = "done"
            /\ calls[c].code \notin {"none", "OK", "SSL_CONNECT_OK"}) =>
            /\ calls[c].outcome = "rejected"
            /\ device = Null

\* C9: a connect() whose SDK connect callback fired resolves exactly when the
\* code is "OK" or "SSL_CONNECT_OK", and otherwise rejects with an error whose
\* message carries the code.
ConnectOutcomeFollowsCode ==
    \A c \in Slots :
        (calls[c].op = "connect" /\ calls[c].pc = "done" /\ calls[c].code # "none") =>
            /\ calls[c].outcome = "resolved" <=> calls[c].code \in {"OK", "SSL_CONNECT_OK"}
            /\ calls[c].outcome \in {"resolved", "rejected"}
            /\ calls[c].outcome = "rejected" =>
                  calls[c].error = "Failed to connect: " \o calls[c].code

\* C9 witness: a connect() has resolved on "SSL_CONNECT_OK".
ConnectedOverSsl ==
    \E c \in Slots :
        /\ calls[c].op = "connect"
        /\ calls[c].outcome = "resolved"
        /\ calls[c].code = "SSL_CONNECT_OK"

\* No operation of the binding is in flight: every slot is free or holds a
\* result the component has yet to take.
HookIdle == \A c \in Slots : calls[c].pc = "free" \/ (calls[c].pc = "done" /\ calls[c].by = "user")

\* C10 (as claimed): Status is connected if and only if both handles are held
\* and the SDK reports the session live.
StatusConnectedIffLive ==
    status = PRINTER_STATUS.CONNECTED <=> (device # Null /\ printer # Null /\ Live)

\* C10 (amended): while the component is mounted, awaits the binding's calls and
\* none is in flight, Status is connected if and only if both handles are held;
\* Status does not follow the SDK's live-check.
StatusConnectedIffHandles ==
    (mounted /\ HookIdle) =>
        (status = PRINTER_STATUS.CONNECTED <=> (device # Null /\ printer # Null))

\* C10 witness: Status is connected, nothing is in flight, both handles are held
\* and the session is no longer live.
StatusConnectedSessionDead ==
    /\ mounted
    /\ HookIdle
    /\ status = PRINTER_STATUS.CONNECTED
    /\ device # Null
    /\ printer # Null
    /\ ~Live

\* C11 (as claimed): once a connect() of the binding has failed (the SDK failed
\* to load, the session failed to open or the printer device was not created)
\* and nothing is in flight, Status is error and the manager holds neither a
\* session handle nor a printer device handle.
FailedAttemptResetsHandles ==
    \A c \in Slots :
        (mounted /\ HookIdle /\ calls[c].op = "hookConnect" /\ calls[c].value = Null) =>
            /\ status = PRINTER_STATUS.ERROR
            /\ error # NoError
            /\ device = Null
            /\ printer = Null

\* C12: createPrinter() called while no session handle is held rejects at once
\* with "Device not connected.", invokes no SDK primitive (createDevice is not
\* called, no printer object is made) and leaves both handles null.
CreatePrinterNeedsSession ==
    [][\A c \in Slots :
          (Called(c, "createPrinter") /\ device = Null) =>
              /\ calls'[c].pc = "done"
              /\ calls'[c].outcome = "rejected"
              /\ calls'[c].error = "Device not connected."
              /\ calls'[c].trace = << >>
              /\ device' = Null
              /\ printer' = Null
              /\ sdkVars' = sdkVars]_vars

\* C12 witness: a createPrinter() called with no session held has rejected and
\* both handles are null.
CreatePrinterRejectedNoSession ==
    \E c \in Slots :
        /\ calls[c].op = "createPrinter"
        /\ calls[c].outcome = "rejected"
        /\ calls[c].dev0 = Null
        /\ calls[c].trace = << >>
        /\ device = Null
        /\ printer = Null

\* C13: when the createDevice callback reports a code other than "OK",
\* createPrinter() rejects with an error carrying the code, the printer device
\* handle stays null and the session handle is what it was; and a
\* createPrinter() called while a session is held and no printer handle is
\* invokes createDevice on that session, without a new session being opened.
CreateFailureKeepsSession ==
    [][\A c \in Slots :
          /\ (calls[c].pc = "awaitCreate" /\ calls'[c].code \notin {"none", "OK"}) =>
                /\ calls'[c].pc = "done"
                /\ calls'[c].outcome = "rejected"
                /\ calls'[c].error = "CreateDevice failed: " \o calls'[c].code
                /\ printer' = Null
                /\ device # Null
                /\ device' = device
                /\ Len(sess') = Len(sess)
          /\ (Called(c, "createPrinter") /\ device # Null /\ printer = Null) =>
                /\ calls'[c].pc = "awaitCreate"
                /\ calls'[c].trace = << <<"createDevice", device>> >>
                /\ device' = device
                /\ Len(sess') = Len(sess)]_vars

\* C13 witness: after a createDevice that failed on the held session, a second
\* createPrinter() has invoked createDevice on the same session.
CreatePrinterRetriedOnSession ==
    \E c \in Slots :
        /\ calls[c].op = "createPrinter"
        /\ calls[c].pc = "awaitCreate"
        /\ calls[c].dev0 # Null
        /\ device = calls[c].dev0
        /\ printer = Null
        /\ sess[device].asked = 2
        /\ sess[device].made = 0

\* C14: loadSdk() called while this.sdkLoaded is true or the SDK's global entry
\* point is present sets the flag true and resolves at once; it injects no
\* script element and attaches to none.
LoadSdkSkipsWhenReady ==
    [][\A c \in Slots :
          (Called(c, "loadSdk") /\ (sdkLoaded \/ epson)) =>
              /\ calls'[c].pc = "done"
              /\ calls'[c].outcome = "resolved"
              /\ calls'[c].trace = << >>
              /\ sdkLoaded' = TRUE
              /\ scripts' = scripts]_vars

\* C14 witness: a loadSdk() has resolved and set the flag on a page that has the
\* global entry point and not one script element.
LoadSdkReadyByGlobal ==
    \E c \in Slots :
        /\ calls[c].op = "loadSdk"
        /\ calls[c].outcome = "resolved"
        /\ calls[c].trace = << >>
        /\ epson
        /\ sdkLoaded
        /\ \A u \in Urls : scripts[u].state = "absent"

\* C15: however loadSdk() calls of the two managers overlap, at most one script
\* element is appended per URL, and when a loading script fires load every call
\* waiting on it (the one that injected it and those that attached to it
\* while it was pending) resolves in that step.
OneScriptPerUrl ==
    /\ [](\A u \in Urls : scripts[u].injected <= 1)
    /\ [][\A u \in Urls :
            (scripts[u].state = "loading" /\ scripts'[u].state = "loaded") =>
                \A c \in Slots :
                    Waiting(c, u) =>
                        (calls'[c].pc = "done" /\ calls'[c].outcome = "resolved")]_vars

\* C15 witness: one manager injected the script, the other attached to it while
\* it was loading, the script has loaded and both calls have resolved.
BothLoadersResolved ==
    \E c, d \in Slots :
        /\ calls[c].by = "user"
        /\ calls[c].trace = << <<"inject", Null>> >>
        /\ calls[c].outcome = "resolved"
        /\ calls[d].by = "peer"
        /\ calls[d].trace = << <<"attach", Null>> >>
        /\ calls[d].outcome = "resolved"
        /\ scripts[calls[c].url] = [state |-> "loaded", injected |-> 1]
        /\ sdkLoaded
        /\ peerLoaded

\* C16: when a loading script element fires error, every call of the manager
\* waiting on it rejects, the one that injected the element with the error
\* "Failed to load Epson SDK", and this.sdkLoaded is false before and after.
LoadFailureRejects ==
    [][\A u \in Urls :
          (scripts[u].state = "loading" /\ scripts'[u].state = "failed") =>
              \A c \in Slots :
                  (Waiting(c, u) /\ calls[c].by # "peer") =>
                      /\ calls'[c].pc = "done"
                      /\ calls'[c].outcome = "rejected"
                      /\ Has(calls[c].trace, "inject") =>
                            calls'[c].error = "Failed to load Epson SDK"
                      /\ ~sdkLoaded
                      /\ ~sdkLoaded']_vars

\* C16 witness: a loadSdk() that injected the script has rejected with the load
\* error, the element has failed and the flag is false.
LoadSdkRejectedOnError ==
    \E c \in Slots :
        /\ calls[c].op = "loadSdk"
        /\ calls[c].trace = << <<"inject", Null>> >>
        /\ calls[c].outcome = "rejected"
        /\ calls[c].error = "Failed to load Epson SDK"
        /\ scripts[calls[c].url].state = "failed"
        /\ ~sdkLoaded

\* C17 (as claimed): a call waiting for a script waits for one that can still
\* fire load or error; no loadSdk() or connect() made after a failed load waits
\* on the script element that has already failed (an element fires its load or
\* error event once, so such a call never settles).
RetryAwaitsPendingScript ==
    \A c \in Slots :
        (calls[c].pc = "awaitScript" /\ calls[c].by # "peer") =>
            scripts[calls[c].url].state # "failed"

\* C18 (as claimed): after setSdkUrl(u) with a URL other than the one the
\* manager was constructed with, a loadSdk() or connect() resolves only once
\* the script for u has been loaded.
SetSdkUrlForcesReload ==
    \A c, d \in Slots :
        (/\ calls[d].op = "setSdkUrl"
         /\ calls[d].url = sdkUrl
         /\ sdkUrl # options.sdkUrl[1]
         /\ calls[c].op \in {"loadSdk", "connect"}
         /\ calls[c].outcome = "resolved") =>
            scripts[sdkUrl].state = "loaded"

\* C19: setEndpoint(h, p) stores h, stores p only when it is passed, leaves the
\* handles, the flag, the SDK URL, the page, the SDK (no primitive is invoked)
\* and every other call as they were; getEndpoint() then returns the new pair.
SetEndpointOnlyStores ==
    [][\A c \in Slots :
          Called(c, "setEndpoint") =>
              LET a == calls'[c].arg
                  p == IF a.port = Omitted THEN port ELSE a.port[1]
              IN
              /\ ip' = a.ip[1]
              /\ port' = p
              /\ GetEndpoint' = [ip |-> a.ip[1], port |-> p]
              /\ calls'[c].trace = << >>
              /\ \A d \in Slots \ {c} : calls'[d] = calls[d]
              /\ UNCHANGED <<device, printer, sdkLoaded, sdkUrl, pageVars, sdkVars>>]_vars

\* C19 witness: setEndpoint(h) without a port has returned on a manager that
\* holds a session: the host is replaced, the port set earlier is kept.
EndpointHostReplacedPortKept ==
    \E c \in Slots :
        /\ calls[c].op = "setEndpoint"
        /\ calls[c].arg.port = Omitted
        /\ ip = calls[c].arg.ip[1]
        /\ ip # CtorOptions.ip[1]
        /\ port # DefaultPort
        /\ device # Null

\* C20: new EposClient(options) throws the configuration error about sdkUrl
\* when the SDK URL is absent (or empty), the one about the printer IP when the
\* host is absent (or empty), and otherwise builds a manager with the given
\* URL and host, the given port or 8043 when none is given, both handles null,
\* the loaded flag false and isConnected() false.
ConstructorChecksOptions ==
    [][client = "none" =>
          /\ Falsy(options.sdkUrl) =>
                /\ client' = "threw"
                /\ calls'[1].error = "EposClient requires sdkUrl in constructor options."
          /\ (~Falsy(options.sdkUrl) /\ Falsy(options.ip)) =>
                /\ client' = "threw"
                /\ calls'[1].error = "EposClient requires printer IP in constructor options."
          /\ (~Falsy(options.sdkUrl) /\ ~Falsy(options.ip)) =>
                /\ client' = "built"
                /\ sdkUrl' = options.sdkUrl[1]
                /\ ip' = options.ip[1]
                /\ port' = IF options.port = Omitted THEN 8043 ELSE options.port[1]
                /\ device' = Null
                /\ printer' = Null
                /\ ~sdkLoaded'
                /\ (~IsConnected.answer)']_vars

\* C20 witness: the constructor has thrown for options with an SDK URL and no
\* host.
ConstructorThrewNoHost ==
    /\ client = "threw"
    /\ ~Falsy(options.sdkUrl)
    /\ options.ip = Omitted
    /\ calls[1].outcome = "threw"
    /\ calls[1].error = "EposClient requires printer IP in constructor options."

\* The error of connect() when it has no host to connect to.
NoHostError ==
    "Printer IP not provided. Pass in constructor, setEndpoint(), or connect(ip, port)."

\* C21 (as claimed): connect() rejects with the configuration error only when
\* no host is to be had from either source: the override is absent or empty
\* and the stored host is empty.
ConfigErrorOnlyWithoutAnyHost ==
    \A c \in Slots :
        (calls[c].op = "connect" /\ calls[c].error = NoHostError) =>
            (Falsy(calls[c].arg.ip) /\ ip = "")

\* C21 (amended): when connect() comes to open a session, the effective host
\* and port are the override arguments where passed (an empty host included)
\* and the stored values otherwise; these are what the SDK connect primitive
\* is given. connect() rejects with the configuration error exactly when the
\* effective host is empty, and then no session object is created and the
\* stored endpoint and the session handle are unchanged.
ConnectUsesEffectiveEndpoint ==
    [][\A c \in Slots :
          (calls[c].op = "connect" /\ calls[c].pc = "afterLoad"
              /\ calls'[c].pc # "afterLoad") =>
              LET a == calls[c].arg
                  h == IF a.ip = Omitted THEN ip ELSE a.ip[1]
                  p == IF a.port = Omitted THEN port ELSE a.port[1]
              IN
              /\ (calls'[c].error = NoHostError) <=> (h = "")
              /\ h = "" =>
                    /\ calls'[c].outcome = "rejected"
                    /\ ~Has(calls'[c].trace, "new")
                    /\ sess' = sess
                    /\ device' = device
                    /\ ip' = ip
                    /\ port' = port
              /\ Has(calls'[c].trace, "connect") =>
                    /\ calls'[c].host = h
                    /\ calls'[c].port = p]_vars

\* C21 witness: connect("") has rejected with the configuration error on a
\* manager whose stored host is not empty, and no session was created.
ConnectEmptyOverrideRejected ==
    \E c \in Slots :
        /\ calls[c].op = "connect"
        /\ calls[c].arg.ip = <<"">>
        /\ calls[c].outcome = "rejected"
        /\ calls[c].error = NoHostError
        /\ ip # ""
        /\ ~Has(calls[c].trace, "new")

\* C22: when the script that a connect() is waiting for fires error, the
\* connect() rejects with the failure of its loadSdk(), it has created no
\* session object and has not invoked the connect primitive, and the session
\* handle is null before and after.
ConnectRejectsOnLoadFailure ==
    [][\A u \in Urls :
          (scripts[u].state = "loading" /\ scripts'[u].state = "failed") =>
              \A c \in Slots :
                  (Waiting(c, u) /\ calls[c].op = "connect") =>
                      /\ calls'[c].pc = "done"
                      /\ calls'[c].outcome = "rejected"
                      /\ calls'[c].error =
                            IF Has(calls[c].trace, "inject")
                            THEN "Failed to load Epson SDK" ELSE NoMessage
                      /\ ~Has(calls'[c].trace, "new")
                      /\ ~Has(calls'[c].trace, "connect")
                      /\ sess' = sess
                      /\ device = Null
                      /\ device' = Null]_vars

\* C22 witness: a connect() that injected the script has rejected with the load
\* error; no session object exists and no handle is held.
ConnectRejectedLoadFailed ==
    \E c \in Slots :
        /\ calls[c].op = "connect"
        /\ calls[c].outcome = "rejected"
        /\ calls[c].error = "Failed to load Epson SDK"
        /\ calls[c].trace = << <<"inject", Null>> >>
        /\ sess = << >>
        /\ device = Null

\* C23: the step in which the binding's connect() is called sets Status to
\* connecting and the error to null (the manager's connect() is invoked in the
\* same uninterrupted run, after both); the step in which it settles sets
\* Status to connected when the manager's connect() and createPrinter() both
\* resolved, and otherwise sets Status to error and the error to the message
\* of the rejection.
HookConnectProjectsStatus ==
    [][\A c \in Slots :
          /\ (calls[c].pc = "free" /\ calls'[c].by = "hookConnect") =>
                /\ status' = PRINTER_STATUS.CONNECTING
                /\ error' = NoError
                /\ calls'[c].op = "connect"
          /\ (calls[c].by = "hookConnect" /\ calls'[c].op = "hookConnect") =>
                IF calls[c].op = "createPrinter" /\ calls[c].outcome = "resolved"
                THEN /\ status' = PRINTER_STATUS.CONNECTED
                     /\ error' = NoError
                ELSE /\ calls[c].outcome = "rejected"
                     /\ status' = PRINTER_STATUS.ERROR
                     /\ error' = calls[c].error
                     /\ error' # NoError]_vars

\* C23 witness: the binding's connect() has settled after the manager's
\* connect() resolved and its createPrinter() rejected: Status is error and the
\* message is recorded.
HookConnectFailedAtCreate ==
    \E c \in Slots :
        /\ mounted
        /\ calls[c].op = "hookConnect"
        /\ calls[c].pc = "done"
        /\ status = PRINTER_STATUS.ERROR
        /\ error = "CreateDevice failed: ERROR_TIMEOUT"

\* C24: the promise of the binding's connect() is never rejected; it resolves
\* with the printer device handle the manager's createPrinter() resolved with
\* (which printerRef.current then holds) when both calls of the manager
\* resolved, and with null, printerRef.current being null, when either rejected.
HookConnectNeverRejects ==
    /\ [](\A c \in Slots :
            (calls[c].op = "hookConnect" /\ calls[c].pc = "done") =>
                calls[c].outcome = "resolved")
    /\ [][\A c \in Slots :
            (calls[c].by = "hookConnect" /\ calls'[c].op = "hookConnect") =>
                /\ calls'[c].pc = "done"
                /\ calls'[c].outcome = "resolved"
                /\ IF calls[c].op = "createPrinter" /\ calls[c].outcome = "resolved"
                   THEN /\ calls'[c].value # Null
                        /\ calls'[c].value = calls[c].value
                        /\ printerRef' = calls[c].value
                   ELSE /\ calls'[c].value = Null
                        /\ printerRef' = Null]_vars

\* C24 witness: after an earlier connect() of the binding had obtained a
\* printer, a later one has failed: it has resolved with null and
\* printerRef.current is null.
HookConnectResolvedNull ==
    \E c \in Slots :
        /\ mounted
        /\ calls[c].op = "hookConnect"
        /\ calls[c].outcome = "resolved"
        /\ calls[c].value = Null
        /\ status = PRINTER_STATUS.ERROR
        /\ printerRef = Null
        /\ nPrinters > 0

\* C25: the binding's disconnect() settles only after the manager's
\* disconnect() has resolved, and the step in which it settles leaves Status
\* idle and printerRef.current null, whatever Status was.
HookDisconnectResetsStatus ==
    [][\A c \in Slots :
          (calls[c].by = "hookDisconnect" /\ calls'[c].op = "hookDisconnect") =>
              /\ calls[c].op = "disconnect"
              /\ calls[c].pc = "done"
              /\ calls[c].outcome = "resolved"
              /\ calls'[c].outcome = "resolved"
              /\ status' = PRINTER_STATUS.IDLE
              /\ printerRef' = Null]_vars

\* C25 witness: a disconnect() of the binding called with Status error has
\* settled: Status is idle, printerRef.current is null (the message of the
\* earlier failure is still there).
HookDisconnectedFromError ==
    \E c \in Slots :
        /\ mounted
        /\ calls[c].op = "hookDisconnect"
        /\ calls[c].pc = "done"
        /\ status = PRINTER_STATUS.IDLE
        /\ printerRef = Null
        /\ error # NoError

\* C26: the step that tears the owning scope down starts exactly one call of
\* the manager's disconnect() on behalf of the teardown, whatever Status is;
\* no other step starts one, and a scope torn down stays torn down.
TeardownDisconnectsOnce ==
    [][LET started == {c \in Slots : calls'[c].by = "unmount" /\ calls[c].by # "unmount"} IN
       /\ (~mounted) => ~mounted'
       /\ IF mounted /\ ~mounted'
          THEN /\ Cardinality(started) = 1
               /\ \A c \in started : IsFree(c) /\ calls'[c].op = "disconnect"
               /\ status' = status
          ELSE started = {}]_vars

\* C26 witness: the scope was torn down while the binding's connect() was in
\* flight (Status connecting) and the teardown's disconnect() has been called.
TornDownWhileConnecting ==
    /\ ~mounted
    /\ status = PRINTER_STATUS.CONNECTING
    /\ Cardinality({c \in Slots : calls[c].by = "unmount" /\ calls[c].op = "disconnect"}) = 1
    /\ \E c \in Slots : calls[c].by = "hookConnect"

\* C27: once the owning scope has been torn down and no operation is in
\* flight any more, the manager holds no session handle and every SDK session
\* it opened has been disconnected.
TeardownLeavesNoSession ==
    (/\ ~mounted
     /\ \A c \in Slots : /\ calls[c].pc \in {"free", "done"}
                         /\ calls[c].by \notin {"hookConnect", "hookDisconnect"})
        => /\ device = Null
           /\ \A s \in Sessions : sess[s].closed

\* C28: isValidPrinterStatus(v) is true exactly when v is a string and is one
\* of idle, connecting, connected, error; it is false for every other string
\* and for every value that is not a string.
ValidIffCanonicalString ==
    \A c \in Slots :
        calls[c].op = "isValidPrinterStatus" =>
            /\ calls[c].output.type = "boolean"
            /\ (calls[c].output.str = "true") <=>
                   (/\ calls[c].input.type = "string"
                    /\ calls[c].input.str \in {"idle", "connecting", "connected", "error"})

\* C28 witness: the predicate has answered true for "connected" and false
\* for a String object holding "idle".
ValidAndInvalidAnswered ==
    \E c, d \in Slots :
        /\ calls[c].op = "isValidPrinterStatus"
        /\ calls[c].input = Str("connected")
        /\ calls[c].output = Bool(TRUE)
        /\ calls[d].op = "isValidPrinterStatus"
        /\ calls[d].input = JsValue("object", "idle")
        /\ calls[d].output = Bool(FALSE)

\* C29: PRINTER_STATUS holds exactly the four values idle, connecting,
\* connected, error, and PRINTER_STATUS_LABELS has a non-empty label for each
\* of them: reading the label of a canonical value yields a non-empty string.
EveryStatusHasLabel ==
    /\ Cardinality(DOMAIN PRINTER_STATUS) = 4
    /\ {PRINTER_STATUS[k] : k \in DOMAIN PRINTER_STATUS} =
           {"idle", "connecting", "connected", "error"}
    /\ \A s \in {"idle", "connecting", "connected", "error"} :
           s \in DOMAIN PRINTER_STATUS_LABELS /\ PRINTER_STATUS_LABELS[s] # ""
    /\ \A c \in Slots :
           (/\ calls[c].op = "PRINTER_STATUS_LABELS"
            /\ calls[c].input.str \in {"idle", "connecting", "connected", "error"})
               => /\ calls[c].output.type = "string"
                  /\ calls[c].output.str # ""

\* C29 witness: the labels of "error" and of "idle" have been read.
LabelsRead ==
    \E c, d \in Slots :
        /\ calls[c].op = "PRINTER_STATUS_LABELS"
        /\ calls[c].input = Str("error")
        /\ calls[c].output = Str("Connection Error")
        /\ calls[d].op = "PRINTER_STATUS_LABELS"
        /\ calls[d].input = Str("idle")
        /\ calls[d].output = Str("Disconnected")

\* C30: the whole life of a connection. The step in which the connect
\* callback fires "OK" resolves connect() with the session held; the step in
\* which the createDevice callback fires "OK" resolves createPrinter() with
\* the printer object, which getPrinter() returns from then on; isConnected()
\* called while that session answers its live-check is true; the step in
\* which disconnect() settles resolves it and leaves getPrinter() null and
\* isConnected() false.
ConnectPrintDisconnect ==
    [][\A c \in Slots :
          /\ (/\ calls[c].op = "connect"
              /\ calls[c].pc = "awaitConnect"
              /\ calls'[c].code = "OK")
                 => /\ calls'[c].pc = "done"
                    /\ calls'[c].outcome = "resolved"
                    /\ device' = calls[c].sid
                    /\ device' # Null
          /\ (/\ calls[c].op = "createPrinter"
              /\ calls[c].pc = "awaitCreate"
              /\ calls'[c].code = "OK")
                 => /\ calls'[c].pc = "done"
                    /\ calls'[c].outcome = "resolved"
                    /\ calls'[c].value # Null
                    /\ GetPrinter' = calls'[c].value
                    /\ (sess[device].live = "true") => IsConnected'.answer
          /\ (/\ Called(c, "isConnected")
              /\ printer # Null
              /\ device # Null
              /\ sess[device].live = "true")
                 => /\ calls'[c].outcome = "returned"
                    /\ calls'[c].answer
          /\ (/\ calls'[c].op = "disconnect"
              /\ calls'[c].pc = "done"
              /\ calls[c].pc # "done")
                 => /\ calls'[c].outcome = "resolved"
                    /\ GetPrinter' = Null
                    /\ ~IsConnected'.answer]_vars

\* C30 witness: on a manager that has opened one session and made one
\* printer object, isConnected() answered true, then disconnect() deleted
\* the printer, closed the session and resolved; getPrinter() is null and
\* isConnected() is false now.
LifeOfOneConnection ==
    \E c, d \in Slots :
        /\ Sessions = {1}
        /\ sess[1].made = 1
        /\ sess[1].closed
        /\ nPrinters = 1
        /\ calls[c].op = "isConnected"
        /\ calls[c].answer
        /\ calls[d].op = "disconnect"
        /\ calls[d].pc = "done"
        /\ calls[d].outcome = "resolved"
        /\ Has(calls[d].trace, "deleteDevice")
        /\ Has(calls[d].trace, "disconnect")
        /\ GetPrinter = Null
        /\ ~IsConnected.answer

\* C31: the error message the binding exposes is null in every state where
\* Status is idle, connecting or connected.
ErrorNullUnlessStatusError ==
    status \in {PRINTER_STATUS.IDLE, PRINTER_STATUS.CONNECTING, PRINTER_STATUS.CONNECTED}
        => error = NoError

\* C32: in every state of the manager, whatever calls and callbacks are
\* pending, a printer device handle is held only while a session handle is.
PrinterImpliesSession == printer # Null => device # Null

\* C33: on each SDK session at most one createDevice invocation completes
\* with "OK".
OnePrinterPerSession == \A s \in Sessions : sess[s].made <= 1

\* C34: in the step in which a connect() resolves, the manager holds a
\* session handle, and if that connect() had opened a session of its own
\* (it was waiting for the connect callback) the printer handle is null.
ResolvedConnectHoldsSession ==
    [][\A c \in Slots :
          (/\ calls'[c].op = "connect"
           /\ calls'[c].pc = "done"
           /\ calls'[c].outcome = "resolved"
           /\ calls[c].pc # "done")
              => /\ device' # Null
                 /\ (calls[c].pc = "awaitConnect") => printer' = Null]_vars

\* C35 as stated: Status error is left only by the step in which the
\* binding's connect() is called, which makes it connecting.
ErrorLeftOnlyByConnect ==
    [][(status = PRINTER_STATUS.ERROR /\ status' # PRINTER_STATUS.ERROR) =>
          /\ status' = PRINTER_STATUS.CONNECTING
          /\ \E c \in Slots : calls[c].pc = "free" /\ calls'[c].by = "hookConnect"]_vars

\* C35 amended: Status error is left only by the step in which the binding's
\* connect() is called (to connecting) or by the step in which the binding's
\* disconnect() settles (to idle); every other step leaves it error.
ErrorLeftByConnectOrDisconnect ==
    [][(status = PRINTER_STATUS.ERROR /\ status' # PRINTER_STATUS.ERROR) =>
          \/ /\ status' = PRINTER_STATUS.CONNECTING
             /\ \E c \in Slots : calls[c].pc = "free" /\ calls'[c].by = "hookConnect"
          \/ /\ status' = PRINTER_STATUS.IDLE
             /\ \E c \in Slots : /\ calls[c].by = "hookDisconnect"
                                 /\ calls'[c].op = "hookDisconnect"]_vars

\* C35 witness: a connect() failed at the connect callback, then the
\* binding's disconnect() settled and took Status from error to idle.
ErrorLeftByDisconnect ==
    \E c \in Slots :
        /\ calls[c].op = "hookDisconnect"
        /\ calls[c].pc = "done"
        /\ status = PRINTER_STATUS.IDLE
        /\ error = ConnectError("ERROR_TIMEOUT")
        /\ device = Null

\* C36: the binding never has two connect() calls of the manager in flight
\* at once.
OneManagerConnectInFlight ==
    Cardinality({c \in Slots : /\ calls[c].op = "connect"
                               /\ calls[c].by = "hookConnect"
                               /\ calls[c].pc # "done"}) <= 1

\* C37: every SDK session on which connect was invoked is the session the
\* manager holds or has had its disconnect primitive invoked.
NoSessionLeaked == \A s \in Sessions : s = device \/ sess[s].closed

\* A session the manager opened, no longer holds and never disconnected.
Leaked(s, dev, ss) == s # dev /\ ~ss[s].closed

\* C37 amended: a session becomes leaked only in the step in which a
\* connect() assigns its new session over a handle that was stored while that
\* connect() was in flight, that is by another connect() overlapping it; no
\* disconnect(), callback or other step ever leaves a session behind.
SessionLeakedOnlyByOverlap ==
    [][\A s \in Sessions :
          (Leaked(s, device', sess') /\ ~Leaked(s, device, sess)) =>
              \E c \in Slots :
                  /\ calls[c].op = "connect"
                  /\ calls[c].pc = "afterLoad"
                  /\ calls'[c].pc = "awaitConnect"
                  /\ device = s
                  /\ calls[c].dev0 # s
                  /\ device' = calls'[c].sid]_vars

\* C37 witness: two connect() calls overlapped; the session of the first is
\* neither held nor disconnected, the manager holds the second.
SessionLeftBehind ==
    /\ device = 2
    /\ Leaked(1, device, sess)
    /\ \E c \in Slots : calls[c].op = "connect" /\ calls[c].sid = 2

\* C38: whenever the binding's Status is connected, the manager holds a
\* session handle and a printer device handle. Stated for the states in which
\* the scope is alive and every call of the binding has settled, so that a
\* Status about to be rewritten by a continuation does not count.
ConnectedStatusHoldsHandles ==
    (mounted /\ HookIdle /\ status = PRINTER_STATUS.CONNECTED) =>
        (device # Null /\ printer # Null)

\* C39: the step in which the delete-device callback of a disconnect() fires
\* invokes the SDK disconnect primitive only on the session that was held when
\* that disconnect() asked for the deletion, and nulls no other handle.
LateDeleteSparesLaterSession ==
    [][\A c \in Slots :
          (calls[c].pc = "awaitDelete" /\ calls'[c].pc # "awaitDelete") =>
              /\ \A s \in Sessions :
                     (sess'[s].closed /\ ~sess[s].closed) => s = calls[c].sid
              /\ (device' # device) => device = calls[c].sid]_vars

\* Call c is in flight: made and not settled.
InFlight(c) == calls[c].pc \notin {"free", "done"}

\* C40: when every script event and SDK callback that was requested
\* eventually fires, every call in flight eventually settles and Status does
\* not stay connecting forever.
EveryCallSettles ==
    /\ \A c \in Slots : InFlight(c) ~> ~InFlight(c)
    /\ (status = PRINTER_STATUS.CONNECTING) ~> (status # PRINTER_STATUS.CONNECTING)

====
